---- MODULE Spec2Model ----
(***************************************************************************)
(* Model of blzlib (src/blzlib.c): the bounded wait loop, the connection   *)
(* state machine with its teardown, and the characteristic call wrappers.  *)
(*                                                                         *)
(* Three specifications share the module:                                  *)
(*   SpecLoop  blz_loop_timeout / blz_loop with the 32-bit millisecond     *)
(*             clock,                                                      *)
(*   Spec      blz_connect, blz_connect_known, blz_connect_new, the reply  *)
(*             and signal handlers, blz_disconnect,                        *)
(*   SpecChar  blz_char_read / write / notify_start / notify_stop /        *)
(*             write_fd_acquire.                                           *)
(***************************************************************************)
EXTENDS Integers, Sequences, FiniteSets, TLC

(***************************************************************************)
(* Bounds of the model.                                                    *)
(***************************************************************************)
\* largest timeout_ms handed to blz_loop_timeout in SpecLoop
MaxTimeout == 3
\* a timeout_ms whose count of microseconds does not fit 32 bits
LongTimeout == 4294968
\* largest number of milliseconds that pass during one blz_loop call
MaxStep == 2
\* milliseconds of real time followed after the entry of blz_loop_timeout
MaxElapsed == 5
\* largest number of loop iterations followed in one blz_loop_timeout call
MaxIter == 4
\* largest number of list calls of one kind followed on a handle
MaxLists == 2
\* largest number of wrapper calls followed on one characteristic
MaxOps == 3
\* largest len argument of blz_char_read
MaxLen == 2
\* largest number of bytes a ReadValue reply carries
MaxRcv == 3
\* largest number of blz_scan_start / blz_scan_stop calls followed
MaxScanOps == 3

(***************************************************************************)
(* uint32_t arithmetic.  A uint32_t is kept as two 16-bit halves, so that  *)
(* the values next to the 2^32 wrap are represented exactly.               *)
(***************************************************************************)
Half == 65536

U32(h, l) == [hi |-> h, lo |-> l]

\* conversion of a small natural number to uint32_t
U32OfNat(n) == U32((n \div Half) % Half, n % Half)

\* a + b in uint32_t (modulo 2^32)
U32Add(a, b) ==
    LET s == a.lo + b.lo
    IN  U32((a.hi + b.hi + (s \div Half)) % Half, s % Half)

\* a - b in uint32_t (modulo 2^32)
U32Sub(a, b) ==
    LET borrow == IF a.lo < b.lo THEN 1 ELSE 0
    IN  U32((a.hi - b.hi - borrow + Half) % Half, (a.lo - b.lo + Half) % Half)

\* a * 1000 as the mathematical value, in three 16-bit pieces
Mul1000Wide(a) ==
    LET pl == a.lo * 1000
        ph == a.hi * 1000 + (pl \div Half)
    IN  [top |-> ph \div Half, hi |-> ph % Half, lo |-> pl % Half]

\* a * 1000 in uint32_t (modulo 2^32)
U32Mul1000(a) == U32(Mul1000Wide(a).hi, Mul1000Wide(a).lo)

\* a < b on uint32_t
U32Lt(a, b) == a.hi < b.hi \/ (a.hi = b.hi /\ a.lo < b.lo)

\* values of the truncated monotonic clock at the entry of blz_loop_timeout:
\* far from the wrap, and 1, 2 and 3 ms before it
EntryClocks ==
    { U32(0, 0), U32(0, 1000), U32(Half - 1, Half - 3),
      U32(Half - 1, Half - 2), U32(Half - 1, Half - 1) }

VARIABLES
    \* ---- blz_loop_timeout (SpecLoop)
    lpc,          \* position: "call", "cond", "body", "done"
    check,        \* *check, the flag the caller waits for
    check0,       \* value of *check at entry
    entry_ms,     \* truncated clock at entry (uint32_t)
    elapsed,      \* real milliseconds passed since entry
    timeout_ms,   \* argument timeout_ms
    current_ms,   \* local current_ms (uint32_t)
    end_ms,       \* local end_ms (uint32_t)
    lret,         \* return value, meaningful when lpc = "done"
    nProcess,     \* number of sd_bus_process calls made
    nWait,        \* number of sd_bus_wait calls made
    timeout_us,   \* argument timeout_us of the last blz_loop call, which
                  \* is a 32-bit product widened to uint64_t
    loop_r,       \* result of sd_bus_process in the last blz_loop call
    \* ---- blz_connect / blz_disconnect (Spec)
    pc,           \* position of the caller, see the actions
    atype,        \* argument atype of blz_connect
    conn_status,  \* local conn_status of blz_connect
    r,            \* local r of blz_connect
    dev,          \* the fields of struct blz_dev
    devFrees,     \* number of free(dev) calls made on the handle
    busSub,       \* the PropertiesChanged subscription is registered
    subCreated,   \* sd_bus_match_signal of blz_connect has succeeded
    calls,        \* remote calls issued, in order
    attempts,     \* address type of each blz_connect_new invocation
    attemptRes,   \* result of each finished blz_connect_new invocation
    inflight,     \* ConnectDevice calls whose reply is outstanding
    resolveTimeout, \* the wait for ServicesResolved has timed out
    srSeen,       \* ServicesResolved was observed true
    disc_r,       \* result of the last remote Disconnect call
    discArg,      \* argument of the last blz_disconnect: "none", "NULL", "dev"
    nDisc,        \* number of blz_disconnect invocations
    svcFrees,     \* per allocated service-UUID list: times it was freed
    chrFrees,     \* per allocated characteristic-UUID list: times freed
    ret,          \* result of blz_connect: "none", "NULL", "dev"
    qOutcome,     \* outcome of the Connected query: "none", "unknown_object",
                  \* "error", "true", "false"
    srQueried,    \* outcome of the ServicesResolved query: "none", "error",
                  \* "true", "false"
    cbStage,      \* position inside connect_new_cb: "idle", "stored"
    lastReply,    \* the ConnectDevice reply dispatched last
    ctxPath,      \* ctx->path, the adapter path of the session
    macstr,       \* argument macstr of blz_connect
    subPath,      \* object path of the match rule blz_connect created
    \* ---- characteristic wrappers (SpecChar)
    cpc,          \* "idle", or "notify_wait" inside blz_char_notify_start
    ch,           \* the fields of struct blz_char
    chCalls,      \* remote calls issued on the characteristic, in order
    chSubs,       \* notify subscriptions registered on the bus
    cop,          \* the wrapper called last
    cret,         \* its return value (false is 0, true is 1)
    nOps,         \* number of wrapper calls made
    startErr,     \* StartNotify of the running notify_start call failed
    bufLen,       \* argument len of the last blz_char_read
    rcvLen,       \* bytes received by the last blz_char_read
    copied,       \* bytes the last blz_char_read wrote to the buffer
    callErr,      \* the remote call of the last wrapper returned an error
    \* ---- blz_scan_start / blz_scan_stop (SpecScan)
    scan_cb,      \* ctx->scan_cb: "NULL" or the handler
    scan_slot,    \* ctx->scan_slot: 0 (NULL) or the slot it refers to
    scanSubs,     \* InterfacesAdded match slots registered on the bus
    slotsMade,    \* number of match slots created so far
    scanCalls,    \* remote calls issued on the adapter, in order
    sop,          \* the scan call made last: "none", "start", "stop"
    sret,         \* its return value (false is 0, true is 1)
    nScanOps,     \* number of scan calls made
    intf_r        \* result of the last blz_intf_cb invocation

loopVars == << lpc, check, check0, entry_ms, elapsed, timeout_ms,
               current_ms, end_ms, lret, nProcess, nWait, timeout_us,
               loop_r >>

connVars == << pc, atype, conn_status, r, dev, devFrees, busSub, subCreated,
               calls, attempts, attemptRes, inflight, resolveTimeout, srSeen,
               disc_r, discArg, nDisc, svcFrees, chrFrees, ret,
               qOutcome, srQueried, cbStage, lastReply, ctxPath, macstr,
               subPath >>

histVars == << qOutcome, srQueried >>

cbVars == << cbStage, lastReply >>

pathVars == << ctxPath, macstr >>

charVars == << cpc, ch, chCalls, chSubs, cop, cret, nOps, startErr, bufLen,
               rcvLen, copied, callErr >>

scanVars == << scan_cb, scan_slot, scanSubs, slotsMade, scanCalls, sop, sret,
               nScanOps, intf_r >>

vars == << loopVars,
                    connVars, charVars, scanVars >>

(***************************************************************************)
(* blz_loop_timeout                                                        *)
(***************************************************************************)
\* clock_gettime + conversion to uint32_t milliseconds
ClockMs(entry, el) == U32Add(entry, U32OfNat(el))

\* the deadline, computed once at entry
EndMs(cur, tmo) == U32Add(cur, U32OfNat(tmo))

\* the while loop without the test of the flag
LoopCond_NoFlagTest(chk, cur, end) == U32Lt(cur, end)

\* the condition of the while loop
LoopCond(chk, cur, end) == ~chk /\ U32Lt(cur, end)

\* a return expression that reports success whatever the flag is
LoopResult_AlwaysOk(chk) == 0

\* the argument of blz_loop: (end_ms - current_ms) * 1000, computed in
\* uint32_t
TimeoutUs(end, cur) == U32Mul1000(U32Sub(end, cur))

\* blz_loop calls sd_bus_wait only when sd_bus_process has returned 0
WaitCalled(pr) == pr = 0

\* the return expression
LoopResult(chk) == IF chk THEN 0 ELSE -1

\* a remote call: method name, for ConnectDevice the AddressType, and
\* the object path the call is addressed to
Call(m, t, p) == [method |-> m, addrtype |-> t, path |-> p]

\* number of calls of method m in a call log
CountCalls(log, m) == Cardinality({ i \in 1..Len(log) : log[i].method = m })

\* struct blz_dev after calloc and the first assignments of blz_connect
NewDev ==
    [ connected |-> FALSE, services_resolved |-> FALSE,
      connect_slot |-> FALSE, disconnect_cb |-> FALSE,
      connect_new_done |-> FALSE, connect_new_result |-> 0,
      service_uuids |-> 0, char_uuids |-> 0, path |-> << >> ]

\* a ConnectDevice reply: an error, a reply that cannot be decoded, or a
\* reply that carries an object path
Reply(k, p) == [kind |-> k, opath |-> p]

NoReply == Reply("none", << >>)

\* adapter names given to blz_init
Adapters == {"hci0", "hci1"}

\* blz_init: snprintf(ctx->path, "/org/bluez/%s", dev); a string is the
\* sequence of its pieces
CtxPath(a) == << "/org/bluez/", a >>

\* the digits printed by %02X
HexChars ==
    << "0", "1", "2", "3", "4", "5", "6", "7", "8", "9",
       "A", "B", "C", "D", "E", "F" >>

IsHexChar(c) ==
    c \in { "0", "1", "2", "3", "4", "5", "6", "7", "8", "9",
            "A", "B", "C", "D", "E", "F", "a", "b", "c", "d", "e", "f" }

\* value of one hexadecimal digit, either case
HexVal(c) ==
    CASE c = "0" -> 0 [] c = "1" -> 1 [] c = "2" -> 2 [] c = "3" -> 3
      [] c = "4" -> 4 [] c = "5" -> 5 [] c = "6" -> 6 [] c = "7" -> 7
      [] c = "8" -> 8 [] c = "9" -> 9
      [] c \in {"a", "A"} -> 10 [] c \in {"b", "B"} -> 11
      [] c \in {"c", "C"} -> 12 [] c \in {"d", "D"} -> 13
      [] c \in {"e", "E"} -> 14 [] c \in {"f", "F"} -> 15

\* an address string of the form XX:XX:XX:XX:XX:XX
ValidMacStr(ms) ==
    /\ Len(ms) = 17
    /\ \A i \in 1..17 : IF i % 3 = 0 THEN ms[i] = ":" ELSE IsHexChar(ms[i])

\* blz_string_to_mac on a well-formed address string: the six bytes
StringToMac(ms) ==
    [ i \in 1..6 |-> 16 * HexVal(ms[3 * i - 2]) + HexVal(ms[3 * i - 1]) ]

\* contents the array mac[6] of blz_connect, which is not initialised, may
\* have when the string is rejected: the result of blz_string_to_mac is not
\* tested
UninitMacs == { << 0, 0, 0, 0, 0, 0 >>, << 170, 187, 255, 255, 255, 255 >> }

\* the bytes blz_connect formats for the address string ms
MacBytes(ms) == IF ValidMacStr(ms) THEN { StringToMac(ms) } ELSE UninitMacs

\* %X of one byte: no leading zero
Hex2_NoPad(b) ==
    IF b < 16 THEN << HexChars[b + 1] >>
    ELSE << HexChars[(b \div 16) + 1], HexChars[(b % 16) + 1] >>

\* %02X of one byte
Hex2(b) == << HexChars[(b \div 16) + 1], HexChars[(b % 16) + 1] >>

\* snprintf(dev->path, "%s/dev_%02X_%02X_%02X_%02X_%02X_%02X", ctx->path,
\* mac[0], ..., mac[5])
DevPath(cp, mac) ==
    cp \o << "/dev" >>
       \o << "_" >> \o Hex2(mac[1]) \o << "_" >> \o Hex2(mac[2])
       \o << "_" >> \o Hex2(mac[3]) \o << "_" >> \o Hex2(mac[4])
       \o << "_" >> \o Hex2(mac[5]) \o << "_" >> \o Hex2(mac[6])

\* address strings passed to blz_connect: one address in upper and in
\* lower case and a string that is no address; MacOther is the address of
\* another device of the adapter
MacUpper ==
    << "A", "A", ":", "B", "B", ":", "C", "C", ":", "D", "D", ":",
       "E", "E", ":", "0", "F" >>

MacLower ==
    << "a", "a", ":", "b", "b", ":", "c", "c", ":", "d", "d", ":",
       "e", "e", ":", "0", "f" >>

MacOther ==
    << "A", "A", ":", "B", "B", ":", "C", "C", ":", "D", "D", ":",
       "E", "E", ":", "F", "0" >>

MacShort == << "A", "A", ":", "B", "B" >>

MacStrings == { MacUpper, MacLower, MacShort }

\* a reply that accepts every object path
ReplyMatches_Any(opath, d) == TRUE

\* connect_new_cb: strcmp(opath, dev->path) == 0
ReplyMatches(opath, d) == opath = d.path

\* the case of connect_new_cb a reply falls into
ReplyKind(rp, d) ==
    IF rp.kind = "path"
    THEN IF ReplyMatches(rp.opath, d) THEN "match" ELSE "mismatch"
    ELSE rp.kind

InitConnVars ==
    /\ pc = "idle"
    /\ atype = "UNKNOWN"
    /\ conn_status = -2
    /\ r = 0
    /\ dev = NewDev
    /\ devFrees = 0
    /\ busSub = FALSE
    /\ subCreated = FALSE
    /\ calls = << >>
    /\ attempts = << >>
    /\ attemptRes = << >>
    /\ inflight = {}
    /\ resolveTimeout = FALSE
    /\ srSeen = FALSE
    /\ disc_r = 0
    /\ discArg = "none"
    /\ nDisc = 0
    /\ svcFrees = << >>
    /\ chrFrees = << >>
    /\ ret = "none"
    /\ qOutcome = "none"
    /\ srQueried = "none"
    /\ cbStage = "idle"
    /\ lastReply = NoReply
    /\ ctxPath \in { CtxPath(a) : a \in Adapters }
    /\ macstr = << >>
    /\ subPath = << >>

\* the capability bits of a characteristic
Caps == {"READ", "WRITE", "WRITE_WITHOUT_RESPONSE", "NOTIFY", "INDICATE"}

\* struct blz_char as blz_get_char_from_uuid returns it, with flags fl
NewChar(fl) ==
    [ flags |-> fl, notify_cb |-> FALSE, notify_slot |-> FALSE,
      notifying |-> FALSE ]

InitCharRest ==
    /\ cpc = "idle"
    /\ chCalls = << >>
    /\ chSubs = 0
    /\ cop = "none"
    /\ cret = 0
    /\ nOps = 0
    /\ startErr = FALSE
    /\ bufLen = 0
    /\ rcvLen = 0
    /\ copied = 0
    /\ callErr = FALSE

\* the scan fields of the session after blz_init (calloc)
InitScanIdle ==
    /\ scan_cb = "NULL"
    /\ scan_slot = 0
    /\ scanSubs = {}
    /\ slotsMade = 0
    /\ scanCalls = << >>
    /\ sop = "none"
    /\ sret = 0
    /\ nScanOps = 0
    /\ intf_r = 0

InitCharIdle ==
    /\ ch = NewChar({})
    /\ InitCharRest

InitLoop ==
    /\ lpc = "call"
    /\ check \in BOOLEAN
    /\ check0 = check
    /\ entry_ms \in EntryClocks
    /\ elapsed = 0
    /\ timeout_ms \in 0..MaxTimeout \cup {LongTimeout}
    /\ current_ms = U32(0, 0)
    /\ end_ms = U32(0, 0)
    /\ lret = 0
    /\ nProcess = 0
    /\ nWait = 0
    /\ timeout_us = U32(0, 0)
    /\ loop_r = 0
    /\ InitConnVars
    /\ InitCharIdle
    /\ InitScanIdle

\* entry: read the clock, compute the deadline
loop_entry ==
    /\ lpc = "call"
    /\ current_ms' = ClockMs(entry_ms, elapsed)
    /\ end_ms' = EndMs(ClockMs(entry_ms, elapsed), timeout_ms)
    /\ lpc' = "cond"
    /\ UNCHANGED << check, check0, entry_ms, elapsed, timeout_ms, lret,
                    nProcess, nWait, timeout_us, loop_r,
                    connVars, charVars, scanVars >>

\* the loop condition holds: enter the body
loop_continue ==
    /\ lpc = "cond"
    /\ LoopCond(check, current_ms, end_ms)
    /\ lpc' = "body"
    /\ UNCHANGED << check, check0, entry_ms, elapsed, timeout_ms,
                    current_ms, end_ms, lret, nProcess, nWait, timeout_us,
                    loop_r,
                    connVars, charVars, scanVars >>

\* the loop condition fails: return
loop_return ==
    /\ lpc = "cond"
    /\ ~LoopCond(check, current_ms, end_ms)
    /\ lret' = LoopResult(check)
    /\ lpc' = "done"
    /\ UNCHANGED << check, check0, entry_ms, elapsed, timeout_ms,
                    current_ms, end_ms, nProcess, nWait, timeout_us, loop_r,
                    connVars, charVars, scanVars >>

\* one blz_loop call followed by the clock read of the loop body.
\* pr is the result of sd_bus_process; a processed message (pr > 0) runs a
\* callback that may write the flag; d milliseconds pass meanwhile.
blz_loop ==
    /\ lpc = "body"
    /\ \E pr \in {-1, 0, 1}, d \in 0..MaxStep, f \in BOOLEAN :
          /\ elapsed + d <= MaxElapsed
          /\ nProcess < MaxIter
          /\ nProcess' = nProcess + 1
          /\ nWait' = IF WaitCalled(pr) THEN nWait + 1 ELSE nWait
          /\ loop_r' = pr
          /\ check' = IF pr > 0 THEN f ELSE check
          /\ elapsed' = elapsed + d
          /\ current_ms' = ClockMs(entry_ms, elapsed + d)
    /\ timeout_us' = TimeoutUs(end_ms, current_ms)
    /\ lpc' = "cond"
    /\ UNCHANGED << check0, entry_ms, timeout_ms, end_ms, lret,
                    connVars, charVars, scanVars >>

NextLoop == loop_entry \/ loop_continue \/ loop_return \/ blz_loop

SpecLoop == InitLoop /\ [][NextLoop]_vars

(***************************************************************************)
(* blz_connect, blz_connect_known, blz_connect_new and the handlers        *)
(***************************************************************************)
InitLoopIdle ==
    /\ lpc = "off"
    /\ check = FALSE
    /\ check0 = FALSE
    /\ entry_ms = U32(0, 0)
    /\ elapsed = 0
    /\ timeout_ms = 0
    /\ current_ms = U32(0, 0)
    /\ end_ms = U32(0, 0)
    /\ lret = 0
    /\ nProcess = 0
    /\ nWait = 0
    /\ timeout_us = U32(0, 0)
    /\ loop_r = 0

\* enum blz_addr_type
AddrTypes == {"UNKNOWN", "PUBLIC", "RANDOM"}

\* a first call that takes every type but random for public
FirstAddrPublic_UnlessRandom(at) == at # "RANDOM"

\* argument addr_public of the first blz_connect_new call of blz_connect
FirstAddrPublic(at) == at = "PUBLIC"

\* argument addr_public of the second blz_connect_new call of blz_connect
RetryAddrPublic(at) == ~(at = "PUBLIC")

\* the AddressType property blz_connect_new appends to the message
AddrTypeTag(addr_public) == IF addr_public THEN "public" ELSE "random"

\* a retry that does not look at the address type
RetryNeeded_AnyType(n, rr, at) == n = 1 /\ rr < 0

\* the condition under which blz_connect calls blz_connect_new again;
\* n is the number of blz_connect_new calls made so far (the condition is
\* an if, evaluated once, after the first call)
RetryNeeded(n, rr, at) == n = 1 /\ rr < 0 /\ at = "UNKNOWN"

\* free() of the list a UUID pointer refers to (0 is NULL)
FreeList(fr, p) == IF p = 0 THEN fr ELSE [fr EXCEPT ![p] = @ + 1]

\* a blz_disconnect that returns early when the remote Disconnect fails
blz_disconnect_StopOnError(h, isNull, rr) ==
    IF isNull THEN h
    ELSE IF rr < 0
    THEN [ h EXCEPT !.dev = [h.dev EXCEPT !.connect_slot = FALSE],
                    !.busSub = FALSE,
                    !.calls = Append(h.calls,
                                     Call("Disconnect", "", h.dev.path)),
                    !.disc_r = rr ]
    ELSE [ dev |-> [h.dev EXCEPT !.connect_slot = FALSE],
           busSub |-> IF h.dev.connect_slot THEN FALSE ELSE h.busSub,
           calls |-> Append(h.calls, Call("Disconnect", "", h.dev.path)),
           disc_r |-> rr,
           svcFrees |-> FreeList(h.svcFrees, h.dev.service_uuids),
           chrFrees |-> FreeList(h.chrFrees, h.dev.char_uuids),
           devFrees |-> h.devFrees + 1 ]

\* blz_disconnect on the handle state h; isNull: the argument is NULL;
\* rr: result of the remote Disconnect call, which is only logged
blz_disconnect(h, isNull, rr) ==
    IF isNull THEN h
    ELSE [ dev |-> [h.dev EXCEPT !.connect_slot = FALSE],
           busSub |-> IF h.dev.connect_slot THEN FALSE ELSE h.busSub,
           calls |-> Append(h.calls, Call("Disconnect", "", h.dev.path)),
           disc_r |-> rr,
           svcFrees |-> FreeList(h.svcFrees, h.dev.service_uuids),
           chrFrees |-> FreeList(h.chrFrees, h.dev.char_uuids),
           devFrees |-> h.devFrees + 1 ]

\* the part of the state blz_disconnect works on
Handle ==
    [ dev |-> dev, busSub |-> busSub, calls |-> calls, disc_r |-> disc_r,
      svcFrees |-> svcFrees, chrFrees |-> chrFrees, devFrees |-> devFrees ]

\* label exit of blz_connect with r < 0: free(dev), return NULL
ExitFail ==
    /\ devFrees' = devFrees + 1
    /\ ret' = "NULL"
    /\ pc' = "returned"

\* after the connect step of blz_connect: if (r < 0) goto exit
AfterConnectStep(rr) ==
    IF rr < 0
    THEN ExitFail
    ELSE /\ pc' = "resolve_wait"
         /\ UNCHANGED << devFrees, ret >>

\* after the n-th blz_connect_new call has returned rr
AfterAttempt(n, rr) ==
    /\ attemptRes' = Append(attemptRes, rr)
    /\ r' = rr
    /\ IF RetryNeeded(n, rr, atype)
       THEN /\ pc' = "retry"
            /\ UNCHANGED << devFrees, ret >>
       ELSE AfterConnectStep(rr)

\* blz_connect up to the construction of the device path; m is the
\* content of mac[6] after blz_string_to_mac, pathOk the test of the
\* result of snprintf
blz_connect_entry ==
    /\ pc = "idle"
    /\ \E at \in AddrTypes, allocOk \in BOOLEAN, pathOk \in BOOLEAN,
          ms \in MacStrings :
          \E m \in MacBytes(ms) :
             /\ atype' = at
             /\ macstr' = ms
             /\ IF ~allocOk
                THEN /\ ret' = "NULL"
                     /\ pc' = "returned"
                     /\ devFrees' = devFrees
                     /\ dev' = NewDev
                ELSE IF ~pathOk
                THEN /\ ExitFail
                     /\ dev' = NewDev
                ELSE /\ pc' = "query"
                     /\ dev' = [NewDev EXCEPT !.path = DevPath(ctxPath, m)]
                     /\ UNCHANGED << devFrees, ret >>
    /\ UNCHANGED << conn_status, r, busSub, subCreated, calls, attempts,
                    attemptRes, inflight, resolveTimeout, srSeen, disc_r,
                    discArg, nDisc, svcFrees, chrFrees,
                    histVars, cbVars, ctxPath, subPath,
                    loopVars, charVars, scanVars >>

\* the query of the Connected property, and of ServicesResolved when the
\* device is connected.  A successful read of a 'b' property stores 0 or 1,
\* so conn_status is -1, 0 or 1 after the first query and the branch
\* "conn_status != 0 && conn_status != -1" is never taken.
blz_connect_query ==
    /\ pc = "query"
    /\ \E q \in {"unknown_object", "error", "true", "false"},
          s \in {"error", "true", "false"} :
          /\ conn_status' = CASE q = "unknown_object" -> -1
                              [] q = "error" -> -2
                              [] q = "true" -> 1
                              [] q = "false" -> 0
          /\ calls' = IF q = "true"
                      THEN calls \o
                             << Call("Get Connected", "", dev.path),
                                Call("Get ServicesResolved", "", dev.path) >>
                      ELSE Append(calls, Call("Get Connected", "", dev.path))
          /\ q # "true" => s = "error"
          /\ qOutcome' = q
          /\ srQueried' = IF q = "true" THEN s ELSE "none"
          /\ IF q = "error" \/ (q = "true" /\ s = "error")
             THEN /\ r' = -1
                  /\ ExitFail
                  /\ UNCHANGED << dev, srSeen >>
             ELSE /\ r' = IF q = "unknown_object" THEN -1 ELSE 0
                  /\ dev' = IF q = "true"
                            THEN [dev EXCEPT !.services_resolved = (s = "true")]
                            ELSE dev
                  /\ srSeen' = (srSeen \/ (q = "true" /\ s = "true"))
                  /\ pc' = "subscribe"
                  /\ UNCHANGED << devFrees, ret >>
    /\ UNCHANGED << atype, busSub, subCreated, attempts, attemptRes, inflight,
                    resolveTimeout, disc_r, discArg, nDisc, svcFrees,
                    chrFrees, cbVars, pathVars, subPath,
                    loopVars, charVars, scanVars >>

\* a selection that takes the two connect calls for each other
ConnectStep_Swapped(cs) ==
    CASE cs = 0 -> "new"
      [] cs = -1 -> "known"
      [] OTHER -> "none"

\* the connect step blz_connect takes for a value of conn_status
ConnectStep(cs) ==
    CASE cs = 0 -> "known"
      [] cs = -1 -> "new"
      [] OTHER -> "none"

\* a test that lets blz_connect go on without its subscription
SubscribeFailed_Ignored(rr) == FALSE

\* the test of the result of sd_bus_match_signal
SubscribeFailed(rr) == rr < 0

\* sd_bus_match_signal for PropertiesChanged on the device path; rr is its
\* result, the slot exists when rr >= 0
blz_connect_subscribe ==
    /\ pc = "subscribe"
    /\ \E rr \in {-1, 0} :
          /\ r' = rr
          /\ dev' = IF rr >= 0 THEN [dev EXCEPT !.connect_slot = TRUE]
                               ELSE dev
          /\ busSub' = (rr >= 0)
          /\ subCreated' = (rr >= 0)
          /\ subPath' = IF rr >= 0 THEN dev.path ELSE subPath
          /\ IF SubscribeFailed(rr)
             THEN ExitFail
             ELSE /\ pc' = IF ConnectStep(conn_status) = "none"
                           THEN "resolve_wait" ELSE "connect"
                  /\ UNCHANGED << devFrees, ret >>
    /\ UNCHANGED << atype, conn_status, calls, attempts, attemptRes, inflight,
                    resolveTimeout, srSeen, disc_r, discArg, nDisc, svcFrees,
                    chrFrees,
                    histVars, cbVars, pathVars,
                    loopVars, charVars, scanVars >>

\* conn_status == 0: blz_connect_known, the synchronous Device1.Connect
blz_connect_known ==
    /\ pc = "connect"
    /\ ConnectStep(conn_status) = "known"
    /\ \E rr \in {-1, 0} :
          /\ r' = rr
          /\ AfterConnectStep(rr)
    /\ calls' = Append(calls, Call("Connect", "", dev.path))
    /\ UNCHANGED << atype, conn_status, dev, busSub, subCreated, attempts,
                    attemptRes, inflight, resolveTimeout, srSeen, disc_r,
                    discArg, nDisc, svcFrees, chrFrees,
                    histVars, cbVars, pathVars, subPath,
                    loopVars, charVars, scanVars >>

\* conn_status == -1: blz_connect_new up to sd_bus_call_async.
\* out = "build_fail": the message could not be built;
\* out = "send_fail": sd_bus_call_async failed; out = "sent": the call is out.
blz_connect_new ==
    /\ \/ pc = "connect" /\ ConnectStep(conn_status) = "new"
       \/ pc = "retry"
    /\ LET n == Len(attempts) + 1
           pub == IF n = 1 THEN FirstAddrPublic(atype)
                           ELSE RetryAddrPublic(atype)
       IN  /\ attempts' = Append(attempts, AddrTypeTag(pub))
           /\ \E out \in {"build_fail", "send_fail", "sent"} :
                 /\ dev' = IF out = "build_fail" THEN dev
                           ELSE [dev EXCEPT !.connect_new_done = FALSE]
                 /\ IF out = "sent"
                    THEN /\ calls' = Append(calls,
                                 Call("ConnectDevice", AddrTypeTag(pub),
                                      ctxPath))
                         /\ inflight' = inflight \cup {n}
                         /\ pc' = "new_wait"
                         /\ UNCHANGED << r, attemptRes, devFrees, ret >>
                    ELSE /\ AfterAttempt(n, -1)
                         /\ UNCHANGED << calls, inflight >>
    /\ UNCHANGED << atype, conn_status, busSub, subCreated, resolveTimeout,
                    srSeen, disc_r, discArg, nDisc, svcFrees, chrFrees,
                    histVars, cbVars, pathVars, subPath,
                    loopVars, charVars, scanVars >>

\* the flag a blz_loop_timeout call of blz_connect is waiting for
Waiting == pc \in {"new_wait", "resolve_wait"}

WaitFlag == IF pc = "new_wait" THEN dev.connect_new_done
                               ELSE dev.services_resolved

\* result code connect_new_cb stores for a reply of the given kind
ConnectNewResult(kind) ==
    CASE kind = "error" -> -5
      [] kind = "undecodable" -> -6
      [] kind = "mismatch" -> -1
      [] kind = "match" -> 1

\* the replies a ConnectDevice call can get: an error, a reply that
\* cannot be decoded, or the object path of a device of the adapter
Replies ==
    { Reply("error", << >>), Reply("undecodable", << >>) }
        \cup { Reply("path", q) :
                 q \in { dev.path, DevPath(ctxPath, StringToMac(MacOther)) } }

\* connect_new_cb up to the assignment of dev->connect_new_result: the
\* reply of an outstanding ConnectDevice call is dispatched by the wait
\* loop (which runs only while its flag is false)
connect_new_cb ==
    /\ Waiting
    /\ ~WaitFlag
    /\ cbStage = "idle"
    /\ \E i \in inflight, rp \in Replies :
          /\ inflight' = inflight \ {i}
          /\ lastReply' = rp
          /\ dev' = [dev EXCEPT !.connect_new_result =
                                    ConnectNewResult(ReplyKind(rp, dev))]
    /\ cbStage' = "stored"
    /\ UNCHANGED << pc, atype, conn_status, r, devFrees, busSub, subCreated,
                    calls, attempts, attemptRes, resolveTimeout, srSeen,
                    disc_r, discArg, nDisc, svcFrees, chrFrees, ret,
                    histVars, pathVars, subPath,
                    loopVars, charVars, scanVars >>

\* connect_new_cb from the assignment of dev->connect_new_done to return
connect_new_cb_done ==
    /\ cbStage = "stored"
    /\ dev' = [dev EXCEPT !.connect_new_done = TRUE]
    /\ cbStage' = "idle"
    /\ UNCHANGED << pc, atype, conn_status, r, devFrees, busSub, subCreated,
                    calls, attempts, attemptRes, inflight, resolveTimeout,
                    srSeen, disc_r, discArg, nDisc, svcFrees, chrFrees, ret,
                    histVars, lastReply, pathVars, subPath,
                    loopVars, charVars, scanVars >>

\* the update msg_parse_interface makes for one property of Device1
SetDeviceProperty(d, prop, v) ==
    IF prop = "Connected" THEN [d EXCEPT !.connected = v]
                          ELSE [d EXCEPT !.services_resolved = v]

\* blz_connect_cb: a PropertiesChanged signal of the device is dispatched
\* by the wait loop
blz_connect_cb ==
    /\ Waiting
    /\ ~WaitFlag
    /\ cbStage = "idle"
    /\ busSub
    /\ \E prop \in {"Connected", "ServicesResolved"}, v \in BOOLEAN :
          /\ dev' = SetDeviceProperty(dev, prop, v)
          /\ srSeen' = (srSeen \/ (prop = "ServicesResolved" /\ v))
    /\ UNCHANGED << pc, atype, conn_status, r, devFrees, busSub, subCreated,
                    calls, attempts, attemptRes, inflight, resolveTimeout,
                    disc_r, discArg, nDisc, svcFrees, chrFrees, ret,
                    histVars, cbVars, pathVars, subPath,
                    loopVars, charVars, scanVars >>

\* blz_connect_new after blz_loop_timeout(&connect_new_done) has returned:
\* with 0 when the flag is set, with -1 when the deadline passed first
blz_connect_new_wait_end ==
    /\ pc = "new_wait"
    /\ cbStage = "idle"
    /\ LET lr == LoopResult(dev.connect_new_done)
           rr == IF lr < 0 THEN lr ELSE dev.connect_new_result
       IN  AfterAttempt(Len(attempts), rr)
    /\ UNCHANGED << atype, conn_status, dev, busSub, subCreated, calls,
                    attempts, inflight, resolveTimeout, srSeen, disc_r,
                    discArg, nDisc, svcFrees, chrFrees,
                    histVars, cbVars, pathVars, subPath,
                    loopVars, charVars, scanVars >>

\* blz_connect after blz_loop_timeout(&services_resolved) has returned 0
blz_connect_resolved ==
    /\ pc = "resolve_wait"
    /\ cbStage = "idle"
    /\ LoopResult(dev.services_resolved) >= 0
    /\ r' = LoopResult(dev.services_resolved)
    /\ dev' = [dev EXCEPT !.connected = TRUE, !.disconnect_cb = TRUE]
    /\ ret' = "dev"
    /\ pc' = "returned"
    /\ UNCHANGED << atype, conn_status, devFrees, busSub, subCreated, calls,
                    attempts, attemptRes, inflight, resolveTimeout, srSeen,
                    disc_r, discArg, nDisc, svcFrees, chrFrees,
                    histVars, cbVars, pathVars, subPath,
                    loopVars, charVars, scanVars >>

\* blz_connect after blz_loop_timeout(&services_resolved) has returned -1:
\* blz_disconnect(dev), which frees dev, then free(dev) again at exit.
\* The second free is undefined behaviour: the call returns NULL or the
\* process is aborted by the allocator.
blz_connect_resolve_timeout ==
    /\ pc = "resolve_wait"
    /\ cbStage = "idle"
    /\ LoopResult(dev.services_resolved) < 0
    /\ r' = LoopResult(dev.services_resolved)
    /\ resolveTimeout' = TRUE
    /\ \E rr \in {-1, 0} :
          LET h == blz_disconnect(Handle, FALSE, rr)
          IN  /\ dev' = h.dev
              /\ busSub' = h.busSub
              /\ calls' = h.calls
              /\ disc_r' = h.disc_r
              /\ svcFrees' = h.svcFrees
              /\ chrFrees' = h.chrFrees
              /\ devFrees' = h.devFrees + 1
    /\ discArg' = "dev"
    /\ nDisc' = nDisc + 1
    /\ \E outcome \in {"returned", "crashed"} :
          /\ pc' = outcome
          /\ ret' = IF outcome = "returned" THEN "NULL" ELSE ret
    /\ UNCHANGED << atype, conn_status, subCreated, attempts, attemptRes,
                    inflight, srSeen,
                    histVars, cbVars, pathVars, subPath,
                    loopVars, charVars, scanVars >>

(***************************************************************************)
(* The caller after blz_connect has returned                               *)
(***************************************************************************)
\* blz_list_service_uuids: on success sd_bus_get_property_strv stores a
\* newly allocated list in dev->service_uuids
blz_list_service_uuids ==
    /\ pc \in {"returned", "client"}
    /\ ret = "dev"
    /\ CountCalls(calls, "Get UUIDs") < MaxLists
    /\ \E ok \in BOOLEAN :
          IF ok
          THEN /\ svcFrees' = Append(svcFrees, 0)
               /\ dev' = [dev EXCEPT !.service_uuids = Len(svcFrees) + 1]
          ELSE UNCHANGED << svcFrees, dev >>
    /\ calls' = Append(calls, Call("Get UUIDs", "", dev.path))
    /\ pc' = "client"
    /\ UNCHANGED << atype, conn_status, r, devFrees, busSub, subCreated,
                    attempts, attemptRes, inflight, resolveTimeout, srSeen,
                    disc_r, discArg, nDisc, chrFrees, ret,
                    histVars, cbVars, pathVars, subPath,
                    loopVars, charVars, scanVars >>

\* blz_list_char_uuids.  out = "call_fail": GetManagedObjects failed;
\* "count_fail": the counting pass failed; "alloc_fail": calloc returned
\* NULL, which is written through before it is tested; "parse_fail": the
\* second pass failed after the list was allocated; "ok".
blz_list_char_uuids ==
    /\ pc \in {"returned", "client"}
    /\ ret = "dev"
    /\ CountCalls(calls, "GetManagedObjects") < MaxLists
    /\ \E out \in {"call_fail", "count_fail", "alloc_fail", "parse_fail",
                   "ok"} :
          /\ IF out \in {"parse_fail", "ok"}
             THEN /\ chrFrees' = Append(chrFrees, 0)
                  /\ dev' = [dev EXCEPT !.char_uuids = Len(chrFrees) + 1]
             ELSE IF out = "alloc_fail"
             THEN /\ chrFrees' = chrFrees
                  /\ dev' = [dev EXCEPT !.char_uuids = 0]
             ELSE UNCHANGED << chrFrees, dev >>
          /\ pc' = IF out = "alloc_fail" THEN "crashed" ELSE "client"
    /\ calls' = Append(calls, Call("GetManagedObjects", "", << "/" >>))
    /\ UNCHANGED << atype, conn_status, r, devFrees, busSub, subCreated,
                    attempts, attemptRes, inflight, resolveTimeout, srSeen,
                    disc_r, discArg, nDisc, svcFrees, ret,
                    histVars, cbVars, pathVars, subPath,
                    loopVars, charVars, scanVars >>

\* the caller hands the result of blz_connect to blz_disconnect
client_disconnect ==
    /\ pc \in {"returned", "client"}
    /\ \E rr \in {-1, 0} :
          LET h == blz_disconnect(Handle, ret # "dev", rr)
          IN  /\ dev' = h.dev
              /\ busSub' = h.busSub
              /\ calls' = h.calls
              /\ disc_r' = h.disc_r
              /\ svcFrees' = h.svcFrees
              /\ chrFrees' = h.chrFrees
              /\ devFrees' = h.devFrees
    /\ discArg' = IF ret = "dev" THEN "dev" ELSE "NULL"
    /\ nDisc' = nDisc + 1
    /\ pc' = "closed"
    /\ UNCHANGED << atype, conn_status, r, subCreated, attempts, attemptRes,
                    inflight, resolveTimeout, srSeen, ret,
                    histVars, cbVars, pathVars, subPath,
                    loopVars, charVars, scanVars >>

Init == InitLoopIdle /\ InitConnVars /\ InitCharIdle /\ InitScanIdle

Next ==
    \/ blz_connect_entry
    \/ blz_connect_query
    \/ blz_connect_subscribe
    \/ blz_connect_known
    \/ blz_connect_new
    \/ connect_new_cb
    \/ connect_new_cb_done
    \/ blz_connect_cb
    \/ blz_connect_new_wait_end
    \/ blz_connect_resolved
    \/ blz_connect_resolve_timeout
    \/ blz_list_service_uuids
    \/ blz_list_char_uuids
    \/ client_disconnect

Spec == Init /\ [][Next]_vars

(***************************************************************************)
(* The characteristic wrappers                                             *)
(***************************************************************************)
\* the capability test each wrapper makes before anything else
CapOk(op, fl) ==
    CASE op = "read" -> "READ" \in fl
      [] op = "write" -> fl \cap {"WRITE", "WRITE_WITHOUT_RESPONSE"} # {}
      [] op = "notify_start" -> fl \cap {"NOTIFY", "INDICATE"} # {}
      [] op = "acquire" -> "WRITE_WITHOUT_RESPONSE" \in fl

\* the value a wrapper returns when the test fails: false, or -1 for
\* blz_char_write_fd_acquire
CapFailRet(op) == IF op = "acquire" THEN -1 ELSE 0

\* return r >= 0
BoolRet(rr) == IF rr >= 0 THEN 1 ELSE 0

\* a copy of everything received, whatever the size of the buffer
CopyLen_Unbounded(rlen, len) == rlen

\* the number of bytes blz_char_read copies: rlen < len ? rlen : len
CopyLen(rlen, len) == IF rlen < len THEN rlen ELSE len

InitChar ==
    /\ InitLoopIdle
    /\ InitConnVars
    /\ ch \in { NewChar(fl) : fl \in SUBSET Caps }
    /\ InitCharRest
    /\ InitScanIdle

blz_char_write ==
    /\ cpc = "idle"
    /\ nOps < MaxOps
    /\ cop' = "write"
    /\ nOps' = nOps + 1
    /\ IF ~CapOk("write", ch.flags)
       THEN /\ cret' = CapFailRet("write")
            /\ callErr' = FALSE
            /\ UNCHANGED chCalls
       ELSE \E out \in {"build_fail", "call_fail", "ok"} :
               /\ chCalls' = IF out = "build_fail" THEN chCalls
                             ELSE Append(chCalls, "WriteValue")
               /\ callErr' = (out = "call_fail")
               /\ cret' = BoolRet(IF out = "ok" THEN 1 ELSE -1)
    /\ UNCHANGED << cpc, ch, chSubs, startErr, bufLen, rcvLen, copied,
                    loopVars, connVars, scanVars >>

\* size_t rlen = -1 is returned, converted to int, when the call or the
\* decoding of the reply fails
blz_char_read ==
    /\ cpc = "idle"
    /\ nOps < MaxOps
    /\ cop' = "read"
    /\ nOps' = nOps + 1
    /\ \E len \in 0..MaxLen :
          /\ bufLen' = len
          /\ IF ~CapOk("read", ch.flags)
             THEN /\ cret' = CapFailRet("read")
                  /\ rcvLen' = 0
                  /\ copied' = 0
                  /\ callErr' = FALSE
                  /\ UNCHANGED chCalls
             ELSE /\ chCalls' = Append(chCalls, "ReadValue")
                  /\ \E out \in {"call_fail", "decode_fail", "ok"},
                        n \in 0..MaxRcv :
                        IF out = "ok"
                        THEN /\ rcvLen' = n
                             /\ copied' = IF n > 0 THEN CopyLen(n, len) ELSE 0
                             /\ cret' = n
                             /\ callErr' = FALSE
                        ELSE /\ callErr' = (out = "call_fail")
                             /\ rcvLen' = 0
                             /\ copied' = 0
                             /\ cret' = -1
    /\ UNCHANGED << cpc, ch, chSubs, startErr, loopVars, connVars, scanVars >>

\* blz_char_notify_start up to the call of blz_loop_timeout
blz_char_notify_start ==
    /\ cpc = "idle"
    /\ nOps < MaxOps
    /\ cop' = "notify_start"
    /\ nOps' = nOps + 1
    /\ IF ~CapOk("notify_start", ch.flags)
       THEN /\ cret' = CapFailRet("notify_start")
            /\ callErr' = FALSE
            /\ UNCHANGED << cpc, ch, chCalls, chSubs, startErr >>
       ELSE \E subOk \in BOOLEAN, sr \in {-1, 1} :
               IF ~subOk
               THEN /\ ch' = [ch EXCEPT !.notify_cb = TRUE]
                    /\ cret' = BoolRet(-1)
                    /\ callErr' = FALSE
                    /\ UNCHANGED << cpc, chCalls, chSubs, startErr >>
               ELSE /\ ch' = [ch EXCEPT !.notify_cb = TRUE,
                                        !.notify_slot = TRUE]
                    /\ chSubs' = chSubs + 1
                    /\ chCalls' = Append(chCalls, "StartNotify")
                    /\ startErr' = (sr < 0)
                    /\ callErr' = (sr < 0)
                    /\ cpc' = "notify_wait"
                    /\ UNCHANGED cret
    /\ UNCHANGED << bufLen, rcvLen, copied, loopVars, connVars, scanVars >>

\* the update msg_parse_notify makes for the property Notifying
SetNotifying(c, v) == [c EXCEPT !.notifying = v]

\* blz_notify_cb with a PropertiesChanged signal that carries Notifying,
\* dispatched by the wait loop of blz_char_notify_start
blz_notify_cb ==
    /\ cpc = "notify_wait"
    /\ ~ch.notifying
    /\ chSubs > 0
    /\ ch.notify_cb
    /\ \E v \in BOOLEAN : ch' = SetNotifying(ch, v)
    /\ UNCHANGED << cpc, chCalls, chSubs, cop, cret, nOps, startErr, bufLen,
                    rcvLen, copied, callErr, loopVars, connVars, scanVars >>

\* blz_char_notify_start after blz_loop_timeout(&notifying) has returned;
\* its result replaces the result of StartNotify in r
blz_char_notify_start_end ==
    /\ cpc = "notify_wait"
    /\ cret' = BoolRet(LoopResult(ch.notifying))
    /\ startErr' = FALSE
    /\ cpc' = "idle"
    /\ UNCHANGED << ch, chCalls, chSubs, cop, nOps, bufLen, rcvLen, copied,
                    callErr, loopVars, connVars, scanVars >>

blz_char_notify_stop ==
    /\ cpc = "idle"
    /\ nOps < MaxOps
    /\ cop' = "notify_stop"
    /\ nOps' = nOps + 1
    /\ IF ~ch.notify_slot
       THEN /\ cret' = 0
            /\ callErr' = FALSE
            /\ UNCHANGED << ch, chCalls, chSubs >>
       ELSE \E rr \in {-1, 1} :
               /\ chCalls' = Append(chCalls, "StopNotify")
               /\ ch' = [ch EXCEPT !.notify_slot = FALSE,
                                   !.notify_cb = FALSE]
               /\ chSubs' = chSubs - 1
               /\ callErr' = (rr < 0)
               /\ cret' = BoolRet(rr)
    /\ UNCHANGED << cpc, startErr, bufLen, rcvLen, copied, loopVars,
                    connVars, scanVars >>

\* out = "call_fail": AcquireWrite failed; "decode_fail": the reply holds
\* no descriptor; "dup_fail": dup returned -1; "ok": dup returned a
\* descriptor
blz_char_write_fd_acquire ==
    /\ cpc = "idle"
    /\ nOps < MaxOps
    /\ cop' = "acquire"
    /\ nOps' = nOps + 1
    /\ IF ~CapOk("acquire", ch.flags)
       THEN /\ cret' = CapFailRet("acquire")
            /\ callErr' = FALSE
            /\ UNCHANGED chCalls
       ELSE \E out \in {"call_fail", "decode_fail", "dup_fail", "ok"} :
               /\ chCalls' = Append(chCalls, "AcquireWrite")
               /\ callErr' = (out = "call_fail")
               /\ cret' = IF out = "ok" THEN 3 ELSE -1
    /\ UNCHANGED << cpc, ch, chSubs, startErr, bufLen, rcvLen, copied,
                    loopVars, connVars, scanVars >>

NextChar ==
    \/ blz_char_write
    \/ blz_char_read
    \/ blz_char_notify_start
    \/ blz_notify_cb
    \/ blz_char_notify_start_end
    \/ blz_char_notify_stop
    \/ blz_char_write_fd_acquire

SpecChar == InitChar /\ [][NextChar]_vars

(***************************************************************************)
(* blz_scan_start, blz_scan_stop and the InterfacesAdded handler           *)
(***************************************************************************)
\* the cb arguments given to blz_scan_start
ScanHandlers == {"NULL", "on_device"}

\* sd_bus_slot_unref(slot): the match of the slot leaves the bus; NULL is
\* accepted
SlotUnref(subs, slot) == subs \ {slot}

\* blz_scan_start.  mr is the result of sd_bus_match_signal, which on
\* success stores a new slot in ctx->scan_slot whatever that field holds;
\* cr is the result of StartDiscovery.
blz_scan_start ==
    /\ nScanOps < MaxScanOps
    /\ \E cb \in ScanHandlers, mr \in {-1, 0}, cr \in {-1, 0} :
          /\ scan_cb' = cb
          /\ IF mr < 0
             THEN /\ sret' = BoolRet(mr)
                  /\ UNCHANGED << scan_slot, scanSubs, slotsMade, scanCalls >>
             ELSE /\ slotsMade' = slotsMade + 1
                  /\ scan_slot' = slotsMade + 1
                  /\ scanSubs' = scanSubs \cup {slotsMade + 1}
                  /\ scanCalls' = Append(scanCalls,
                                         Call("StartDiscovery", "", ctxPath))
                  /\ sret' = BoolRet(cr)
    /\ sop' = "start"
    /\ nScanOps' = nScanOps + 1
    /\ UNCHANGED << intf_r, loopVars, connVars, charVars >>

\* blz_scan_stop; cr is the result of StopDiscovery, which is only logged
\* and returned
blz_scan_stop ==
    /\ nScanOps < MaxScanOps
    /\ \E cr \in {-1, 0} :
          sret' = BoolRet(cr)
    /\ scanCalls' = Append(scanCalls, Call("StopDiscovery", "", ctxPath))
    /\ scanSubs' = SlotUnref(scanSubs, scan_slot)
    /\ scan_slot' = 0
    /\ scan_cb' = "NULL"
    /\ sop' = "stop"
    /\ nScanOps' = nScanOps + 1
    /\ UNCHANGED << slotsMade, intf_r, loopVars, connVars, charVars >>

\* blz_intf_cb: an InterfacesAdded signal is dispatched to a registered
\* match; pr is the result of msg_parse_object
blz_intf_cb ==
    /\ scanSubs # {}
    /\ \E pr \in {-1, 0} :
          intf_r' = IF scan_cb = "NULL" THEN -1 ELSE pr
    /\ UNCHANGED << scan_cb, scan_slot, scanSubs, slotsMade, scanCalls, sop,
                    sret, nScanOps, loopVars, connVars, charVars >>

InitScan == InitLoopIdle /\ InitConnVars /\ InitCharIdle /\ InitScanIdle

NextScan == blz_scan_start \/ blz_scan_stop \/ blz_intf_cb

SpecScan == InitScan /\ [][NextScan]_vars

(***************************************************************************)
(* Properties                                                              *)
(***************************************************************************)
\* the AddressType of the ConnectDevice calls issued, in order
ConnectDeviceTypes ==
    LET cd == SelectSeq(calls, LAMBDA c : c.method = "ConnectDevice")
    IN  [ i \in 1..Len(cd) |-> cd[i].addrtype ]

\* C1: blz_connect makes at most two ConnectDevice attempts; with a public
\* or random address type it makes at most one; with an unspecified type,
\* an unknown device path and a failed first attempt it makes exactly one
\* retry, with the opposite address type.
C1_RetryExactlyOnce ==
    /\ Len(attempts) <= 2
    /\ Len(ConnectDeviceTypes) <= Len(attempts)
    /\ (atype # "UNKNOWN" => Len(attempts) <= 1)
    /\ (conn_status # -1 => Len(attempts) = 0)
    /\ (Len(attemptRes) >= 1 /\ attemptRes[1] >= 0 => Len(attempts) = 1)
    /\ ( /\ atype = "UNKNOWN"
         /\ Len(attemptRes) >= 1
         /\ attemptRes[1] < 0
         /\ pc # "retry"
         => /\ Len(attempts) = 2
            /\ attempts[2] # attempts[1] )

\* C1 witness: a call with unspecified type has returned after its retry
C1_Witness ==
    /\ pc = "returned"
    /\ atype = "UNKNOWN"
    /\ Len(attempts) = 2
    /\ Len(attemptRes) = 2
    /\ Len(ConnectDeviceTypes) = 2

\* C2 as stated: with an unspecified address type the first ConnectDevice
\* attempt carries "public" and the retry carries "random".
C2_PublicThenRandom ==
    atype = "UNKNOWN" =>
        /\ (Len(attempts) >= 1 => attempts[1] = "public")
        /\ (Len(attempts) >= 2 => attempts[2] = "random")

\* C2 amended: with an unspecified address type the first ConnectDevice
\* attempt carries "random" and the retry carries "public"; the calls that
\* reach the bus carry the type of their attempt.
C2_RandomThenPublic ==
    atype = "UNKNOWN" =>
        /\ (Len(attempts) >= 1 => attempts[1] = "random")
        /\ (Len(attempts) >= 2 => attempts[2] = "public")
        /\ (Len(ConnectDeviceTypes) = 2 =>
                ConnectDeviceTypes = << "random", "public" >>)
        /\ (Len(ConnectDeviceTypes) = 1 /\ Len(attempts) = 1 =>
                ConnectDeviceTypes = << "random" >>)

\* C2 witness: both calls of an unspecified-type connect are on the bus
C2_Witness ==
    /\ atype = "UNKNOWN"
    /\ pc = "new_wait"
    /\ ConnectDeviceTypes = << "random", "public" >>

\* C3: when blz_connect returns a handle, the handle has services_resolved
\* and connected set, its subscription is registered, the disconnect
\* callback is stored, the handle was not freed, and ServicesResolved was
\* observed true.
C3_ReturnedHandleIsReady ==
    (pc = "returned" /\ ret = "dev") =>
        /\ dev.services_resolved
        /\ dev.connected
        /\ dev.connect_slot
        /\ busSub
        /\ dev.disconnect_cb
        /\ srSeen
        /\ devFrees = 0

\* C3 witness: blz_connect has just returned a handle
C3_Witness == pc = "returned" /\ ret = "dev" /\ dev.connected

\* C4 as stated: after the wait for ServicesResolved has timed out, one
\* remote Disconnect was issued, the subscription is released, the handle
\* was freed exactly once and blz_connect returns NULL.
C4_TimeoutCleansUpOnce ==
    resolveTimeout =>
        /\ CountCalls(calls, "Disconnect") = 1
        /\ ~busSub
        /\ devFrees = 1
        /\ ret = "NULL"

\* C5 as stated: when blz_connect reports failure after the subscription
\* was created, the subscription is no longer registered; no subscription
\* stays registered for a freed handle.
C5_NoSubscriptionForFreedHandle ==
    /\ (ret = "NULL" /\ subCreated => ~busSub)
    /\ (devFrees > 0 => ~busSub)

\* capability flags that allow a wrapper
RequiredCaps(op) ==
    CASE op = "read" -> {"READ"}
      [] op = "write" -> {"WRITE", "WRITE_WITHOUT_RESPONSE"}
      [] op = "notify_start" -> {"NOTIFY", "INDICATE"}
      [] op = "acquire" -> {"WRITE_WITHOUT_RESPONSE"}

\* a failure value: false for the wrappers returning bool, a negative
\* number for the wrappers returning int
IsFailureValue(op, v) ==
    IF op \in {"read", "acquire"} THEN v < 0 ELSE v = 0

\* C6 as stated: a read, write, notify-start or acquire on a characteristic
\* without the required capability returns a failure value, issues no
\* remote call, creates no subscription and leaves the handle unchanged.
C6_RefusedWithoutTraffic ==
    [][ \A op \in {"read", "write", "notify_start", "acquire"} :
           ( /\ nOps' = nOps + 1
             /\ cop' = op
             /\ ch.flags \cap RequiredCaps(op) = {} )
           => /\ chCalls' = chCalls
              /\ chSubs' = chSubs
              /\ ch' = ch
              /\ cpc' = "idle"
              /\ IsFailureValue(op, cret') ]_vars

\* C7: blz_loop_timeout entered with the flag already true returns 0
\* without a bus processing step, without a bus wait and without letting
\* time pass, whatever timeout_ms is.
C7_TrueFlagReturnsAtOnce ==
    check0 =>
        /\ lpc # "body"
        /\ nProcess = 0
        /\ nWait = 0
        /\ elapsed = 0
        /\ (lpc = "done" => lret = 0)

\* C7 witness: a call entered with a true flag and timeout_ms = 0 is done
C7_Witness == check0 /\ lpc = "done" /\ timeout_ms = 0 /\ lret = 0

\* C8 as stated: blz_loop_timeout does not return -1 before timeout_ms
\* milliseconds have passed since entry, for every entry value of the
\* 32-bit clock.
C8_NoEarlyTimeout ==
    (lpc = "done" /\ lret = -1) => elapsed >= timeout_ms

\* C9 as stated: the loop is left once the deadline computed at entry has
\* passed, and the call returns 0 iff the flag is true at exit, -1
\* otherwise.
C9_ExitsOnceDeadlinePassed ==
    /\ (lpc = "body" => elapsed < timeout_ms)
    /\ (lpc = "done" => (lret = 0 <=> check))
    /\ (lpc = "done" => lret \in {0, -1})

\* C10: a blz_disconnect call on a handle issues one remote Disconnect and,
\* whatever its result, releases the subscription, frees the UUID lists the
\* handle points to and frees the handle; on NULL it changes nothing and
\* issues no call.
C10_DisconnectAlwaysTearsDown ==
    [][ nDisc' = nDisc + 1 =>
          IF discArg' = "dev"
          THEN /\ CountCalls(calls', "Disconnect")
                     = CountCalls(calls, "Disconnect") + 1
               /\ ~busSub'
               /\ ~dev'.connect_slot
               /\ (dev.service_uuids # 0 =>
                      svcFrees'[dev.service_uuids]
                          = svcFrees[dev.service_uuids] + 1)
               /\ (dev.char_uuids # 0 =>
                      chrFrees'[dev.char_uuids]
                          = chrFrees[dev.char_uuids] + 1)
               /\ devFrees' > devFrees
          ELSE /\ calls' = calls
               /\ UNCHANGED << dev, busSub, svcFrees, chrFrees, devFrees >>
      ]_vars

\* C10 witness: a handle with both UUID lists was disconnected and the
\* remote Disconnect returned an error
C10_Witness ==
    /\ pc = "closed"
    /\ discArg = "dev"
    /\ disc_r < 0
    /\ dev.service_uuids # 0
    /\ dev.char_uuids # 0
    /\ svcFrees[dev.service_uuids] = 1
    /\ chrFrees[dev.char_uuids] = 1
    /\ devFrees = 1

\* C11 as stated: after blz_disconnect on a handle, the subscription was
\* not released a second time and every UUID list allocated for the handle
\* by the list calls made before was freed exactly once.
C11_EveryListFreedOnce ==
    (pc = "closed" /\ discArg = "dev") =>
        /\ ~busSub
        /\ \A i \in 1..Len(svcFrees) : svcFrees[i] = 1
        /\ \A i \in 1..Len(chrFrees) : chrFrees[i] = 1

C18_NoFreeWhileCallOutstanding ==
    devFrees > 0 => inflight = {}

\* C19 as stated: at most one ConnectDevice call of a handle is in flight
\* at any time; the retry is not issued while the reply of the first
\* attempt can still arrive.
C19_OneCallInFlight ==
    /\ Cardinality(inflight) <= 1
    /\ (pc = "new_wait" => inflight \subseteq {Len(attempts)})

\* C12 as stated: write, notify-start, notify-stop and acquire return a
\* failure value (false, or a negative number for acquire) whenever the
\* remote call they issued returned an error.
C12_RemoteErrorIsFailure ==
    ( /\ cpc = "idle"
      /\ callErr
      /\ cop \in {"write", "notify_start", "notify_stop", "acquire"} )
    => IF cop = "acquire" THEN cret < 0 ELSE cret = 0

\* C15: a Connect or ConnectDevice call is issued only after the
\* PropertiesChanged subscription was created; when creating it fails,
\* blz_connect returns NULL without a connect call.
C15_SubscribeBeforeConnect ==
    /\ ( \/ CountCalls(calls, "Connect") > 0
         \/ CountCalls(calls, "ConnectDevice") > 0
         \/ Len(attempts) > 0 ) => subCreated
    /\ (pc \in {"connect", "retry", "new_wait", "resolve_wait"}
            => subCreated /\ busSub)
    /\ (pc = "returned" /\ qOutcome \in {"unknown_object", "false", "true"}
          /\ srQueried # "error" /\ ~subCreated
            => /\ ret = "NULL"
               /\ CountCalls(calls, "Connect") = 0
               /\ CountCalls(calls, "ConnectDevice") = 0)

\* C15 witness: the first ConnectDevice call is out, the subscription
\* exists
C15_Witness ==
    /\ pc = "new_wait"
    /\ subCreated
    /\ busSub
    /\ CountCalls(calls, "ConnectDevice") = 1
    /\ Len(attempts) = 1

\* C16: the connect step follows the outcome of the Connected query:
\* unknown object -> no Device1.Connect, only ConnectDevice; known and not
\* connected -> no ConnectDevice, one Connect at most; known and connected
\* -> neither, and the queried ServicesResolved value is stored; any other
\* error of a query -> NULL without subscription and without connect call.
C16_ConnectStepFollowsQuery ==
    /\ (qOutcome \in {"none", "error", "true"} =>
            /\ CountCalls(calls, "Connect") = 0
            /\ CountCalls(calls, "ConnectDevice") = 0
            /\ Len(attempts) = 0)
    /\ (qOutcome = "unknown_object" => CountCalls(calls, "Connect") = 0)
    /\ (qOutcome = "unknown_object" /\ pc = "resolve_wait"
            => CountCalls(calls, "ConnectDevice") >= 1)
    /\ (qOutcome = "false" =>
            /\ CountCalls(calls, "ConnectDevice") = 0
            /\ Len(attempts) = 0
            /\ CountCalls(calls, "Connect") <= 1)
    /\ (qOutcome = "false" /\ pc = "resolve_wait"
            => CountCalls(calls, "Connect") = 1)
    /\ (qOutcome = "true" /\ pc = "subscribe"
            => dev.services_resolved = (srQueried = "true"))
    /\ (qOutcome = "error" \/ srQueried = "error" =>
            /\ ret = "NULL"
            /\ ~subCreated
            /\ ~busSub)

\* C16 witness: a known, not connected device was connected by path
C16_Witness ==
    /\ qOutcome = "false"
    /\ pc = "resolve_wait"
    /\ CountCalls(calls, "Connect") = 1
    /\ CountCalls(calls, "ConnectDevice") = 0

\* the object path of the device AA:BB:CC:DD:EE:0F under the adapter path
C13_ExpectedPath ==
    ctxPath \o << "/dev", "_", "A", "A", "_", "B", "B", "_", "C", "C",
                  "_", "D", "D", "_", "E", "E", "_", "0", "F" >>

C17_ReplyHandlerRecordsResult ==
    [][ /\ (cbStage = "idle" /\ cbStage' = "stored") =>
              /\ ( \/ lastReply'.kind \in {"error", "undecodable"}
                   \/ (lastReply'.kind = "path"
                          /\ lastReply'.opath # dev.path) )
                     => dev'.connect_new_result < 0
              /\ dev'.connect_new_done = dev.connect_new_done
        /\ (cbStage = "stored" /\ cbStage' = "idle") =>
              /\ dev'.connect_new_done
              /\ dev'.connect_new_result = dev.connect_new_result
        /\ (pc = "new_wait" /\ pc' # "new_wait" /\ dev.connect_new_done) =>
              /\ attemptRes' = Append(attemptRes, dev.connect_new_result)
              /\ r' = dev.connect_new_result
              /\ (dev.connect_new_result < 0 => pc' \in {"retry", "returned"})
              /\ (dev.connect_new_result < 0 /\ pc' = "returned"
                     => ret' = "NULL")
      ]_vars

\* C17 witness: the first ConnectDevice call was answered with the path of
\* another device and blz_connect_new has returned the stored failure
C17_Witness ==
    /\ pc = "retry"
    /\ lastReply.kind = "path"
    /\ lastReply.opath # dev.path
    /\ dev.connect_new_done
    /\ dev.connect_new_result = -1
    /\ attemptRes = << -1 >>

\* C20: in an iteration of the wait loop sd_bus_wait is not called when
\* sd_bus_process has consumed a message or failed; otherwise it is called
\* with the remaining budget (deadline minus the clock value of the
\* iteration, in microseconds), which is positive and not larger than
\* timeout_ms; the deadline does not change after entry.
C20_WaitBoundedByBudget ==
    [][ (lpc = "body" /\ lpc' = "cond") =>
           /\ (loop_r' # 0 => nWait' = nWait)
           /\ (loop_r' = 0 =>
                 /\ nWait' = nWait + 1
                 /\ Mul1000Wide(U32Sub(end_ms, current_ms)).top = 0
                 /\ timeout_us' = U32Mul1000(U32Sub(end_ms, current_ms))
                 /\ timeout_us' # U32(0, 0)
                 /\ ~U32Lt(U32OfNat(timeout_ms), U32Sub(end_ms, current_ms)))
           /\ end_ms' = end_ms
      ]_vars

\* C21: whatever blz_scan_start and blz_scan_stop calls were made, at most
\* one InterfacesAdded subscription of the session is registered on the
\* bus; after blz_scan_stop none is registered and the scan callback is
\* cleared, whatever StopDiscovery returned.
C21_AtMostOneScanSubscription ==
    /\ Cardinality(scanSubs) <= 1
    /\ (sop = "stop" => scanSubs = {} /\ scan_cb = "NULL" /\ scan_slot = 0)

====
